---------------------------- MODULE Spec2Model ----------------------------
(***************************************************************************)
(* A model of pycco (src/pycco/main.py): the segmenter parse, the          *)
(* highlight reconciler highlight, the cross-reference resolver            *)
(* preprocess, get_language and destination.                               *)
(*                                                                         *)
(* A Python string is modelled as a sequence of one-character strings, so  *)
(* that strip, startswith, replace, split and the regular expressions of   *)
(* the source are computed character by character.                         *)
(***************************************************************************)
EXTENDS Integers, Sequences, FiniteSets, TLC

(***************************************************************************)
(* Characters and the str methods the source uses.                         *)
(***************************************************************************)
NL == "\n"
SP == " "
TAB == "\t"
DQ == "\""

\* The backtick character, which a TLA+ string cannot hold.
BQ == "backtick"

\* str.strip() and the regular expression class \s: the whitespace of the
\* modelled alphabet.
Whitespace == {SP, TAB, NL}

\* The regular expression class \w restricted to the modelled alphabet.
WordChars ==
  {"a", "b", "c", "d", "e", "f", "g", "h", "i", "l", "m", "n", "o", "p", "r",
   "s", "t", "u", "x", "y", "z", "D", "I", "V", "E", "R", "_", "0", "1"}

\* s[n:]
Drop(s, n) == SubSeq(s, n + 1, Len(s))

\* s[:n]
Take(s, n) == SubSeq(s, 1, n)

startswith(s, p) == Len(p) <= Len(s) /\ SubSeq(s, 1, Len(p)) = p

endswith(s, p) == Len(p) <= Len(s) /\ SubSeq(s, Len(s) - Len(p) + 1, Len(s)) = p

\* Length of the leading whitespace run of s: len(re.match("\s*", s).group(0)).
LeadingSpace(s) ==
  CHOOSE n \in 0..Len(s) :
    /\ \A k \in 1..n : s[k] \in Whitespace
    /\ (n = Len(s) \/ s[n + 1] \notin Whitespace)

\* Length of the trailing whitespace run of s.
TrailingSpace(s) ==
  CHOOSE n \in 0..Len(s) :
    /\ \A k \in (Len(s) - n + 1)..Len(s) : s[k] \in Whitespace
    /\ (n = Len(s) \/ s[Len(s) - n] \notin Whitespace)

lstrip(s) == Drop(s, LeadingSpace(s))

rstrip(s) == Take(s, Len(s) - TrailingSpace(s))

strip(s) == rstrip(lstrip(s))

\* s.replace(sub, ''), sub non-empty: every non-overlapping occurrence, from
\* the left, is removed.
RECURSIVE replace(_, _)
replace(s, sub) ==
  IF s = <<>> THEN <<>>
  ELSE IF startswith(s, sub) THEN replace(Drop(s, Len(sub)), sub)
  ELSE <<Head(s)>> \o replace(Tail(s), sub)

\* The last complete line of s: s.rstrip('\n').split('\n')[-1].
LastLineCarried(s) ==
  LET t == Take(s, Len(s) - 1)
      nls == {k \in 1..Len(t) : t[k] = NL}
  IN IF s = <<>> THEN s
     ELSE IF nls = {} THEN t
     ELSE Drop(t, CHOOSE k \in nls : \A j \in nls : j <= k)

\* s.split('\n')[-1]: what follows the last newline of s.
LastLine(s) ==
  LET nls == {k \in 1..Len(s) : s[k] = NL}
  IN IF nls = {} THEN s
     ELSE Drop(s, CHOOSE k \in nls : \A j \in nls : j <= k)

\* Concatenation of a sequence of strings.
RECURSIVE Concat(_)
Concat(ss) == IF ss = <<>> THEN <<>> ELSE Head(ss) \o Concat(Tail(ss))

(***************************************************************************)
(* The language registry.  A descriptor without block-comment markers has  *)
(* multistart = multiend = <<>>, which is as falsy as the None that        *)
(* language.get("multistart") returns for it.                              *)
(***************************************************************************)
NoMarker == <<>>

\* The file extensions that key the table.
ExtCoffee == <<".", "c", "o", "f", "f", "e", "e">>
ExtPl == <<".", "p", "l">>
ExtSql == <<".", "s", "q", "l">>
ExtC == <<".", "c">>
ExtCpp == <<".", "c", "p", "p">>
ExtJs == <<".", "j", "s">>
ExtRb == <<".", "r", "b">>
ExtPy == <<".", "p", "y">>
ExtScm == <<".", "s", "c", "m">>
ExtLua == <<".", "l", "u", "a">>
ExtErl == <<".", "e", "r", "l">>
ExtTcl == <<".", "t", "c", "l">>
ExtHs == <<".", "h", "s">>

languages ==
  [ext \in {ExtCoffee, ExtPl, ExtSql, ExtC, ExtCpp, ExtJs, ExtRb, ExtPy,
            ExtScm, ExtLua, ExtErl, ExtTcl, ExtHs} |->
    CASE ext = ExtCoffee -> [name |-> "coffee-script", symbol |-> <<"#">>,
                             multistart |-> <<"#", "#", "#">>,
                             multiend |-> <<"#", "#", "#">>]
      [] ext = ExtPl  -> [name |-> "perl", symbol |-> <<"#">>,
                          multistart |-> NoMarker, multiend |-> NoMarker]
      [] ext = ExtSql -> [name |-> "sql", symbol |-> <<"-", "-">>,
                          multistart |-> NoMarker, multiend |-> NoMarker]
      [] ext = ExtC   -> [name |-> "c", symbol |-> <<"/", "/">>,
                          multistart |-> <<"/", "*">>, multiend |-> <<"*", "/">>]
      [] ext = ExtCpp -> [name |-> "cpp", symbol |-> <<"/", "/">>,
                          multistart |-> NoMarker, multiend |-> NoMarker]
      [] ext = ExtJs  -> [name |-> "javascript", symbol |-> <<"/", "/">>,
                          multistart |-> <<"/", "*">>, multiend |-> <<"*", "/">>]
      [] ext = ExtRb  -> [name |-> "ruby", symbol |-> <<"#">>,
                          multistart |-> <<"=", "b", "e", "g", "i", "n">>,
                          multiend |-> <<"=", "e", "n", "d">>]
      [] ext = ExtPy  -> [name |-> "python", symbol |-> <<"#">>,
                          multistart |-> <<DQ, DQ, DQ>>,
                          multiend |-> <<DQ, DQ, DQ>>]
      [] ext = ExtScm -> [name |-> "scheme", symbol |-> <<";", ";">>,
                          multistart |-> <<"#", "|">>, multiend |-> <<"|", "#">>]
      [] ext = ExtLua -> [name |-> "lua", symbol |-> <<"-", "-">>,
                          multistart |-> <<"-", "-", "[", "[">>,
                          multiend |-> <<"-", "-", "]", "]">>]
      [] ext = ExtErl -> [name |-> "erlang", symbol |-> <<"%", "%">>,
                          multistart |-> NoMarker, multiend |-> NoMarker]
      [] ext = ExtTcl -> [name |-> "tcl", symbol |-> <<"#">>,
                          multistart |-> NoMarker, multiend |-> NoMarker]
      [] ext = ExtHs  -> [name |-> "haskell", symbol |-> <<"-", "-">>,
                          multistart |-> <<"{", "-">>, multiend |-> <<"-", "}">>]]

\* l["comment_matcher"] = re.compile(r"^\s*" + l["symbol"] + "\s?"):
\* re.match(comment_matcher, line).  No symbol begins with whitespace, so the
\* greedy \s* is exactly the leading whitespace run.
comment_matcher(l, line) == startswith(lstrip(line), l.symbol)

\* The substitution without the \s? of the pattern: the whitespace after the
\* symbol stays.
strip_comment_symbol_only(l, line) == Drop(lstrip(line), Len(l.symbol))

\* re.sub(comment_matcher, "", line) for a line the matcher matches: the
\* pattern is anchored, so the one match is the leading whitespace, the
\* symbol and at most one whitespace character after it.
strip_comment(l, line) ==
  LET rest == Drop(lstrip(line), Len(l.symbol))
  IN IF rest # <<>> /\ Head(rest) \in Whitespace THEN Tail(rest) ELSE rest

\* l["divider_text"] = "\n" + l["symbol"] + "DIVIDER\n"
DividerWord == <<"D", "I", "V", "I", "D", "E", "R">>

divider_text(l) == <<NL>> \o l.symbol \o DividerWord \o <<NL>>


(***************************************************************************)
(* parse: the segmenter, one step per line of the source.                  *)
(***************************************************************************)
\* save without its test: a section is appended whatever its fields hold.
save_unguarded(secs, docs, code) ==
  Append(secs, [docs_text |-> docs, code_text |-> code])

\* The sections appended so far, each [docs_text, code_text].
save(secs, docs, code) ==
  IF docs # <<>> \/ code # <<>>
  THEN Append(secs, [docs_text |-> docs, code_text |-> code])
  ELSE secs

\* re.search(r'coding[:=]\s*([-\w.]+)', line)
CodingWord == <<"c", "o", "d", "i", "n", "g">>

is_coding(line) ==
  \E k \in 0..Len(line) :
    LET r == Drop(line, k)
    IN /\ startswith(r, CodingWord)
       /\ Len(r) > Len(CodingWord)
       /\ r[Len(CodingWord) + 1] \in {":", "="}
       /\ LET t == lstrip(Drop(r, Len(CodingWord) + 1))
          IN t # <<>> /\ Head(t) \in WordChars \cup {"-", "."}

\* lines.pop(0) when the first line is a shebang.
drop_shebang(ls) ==
  IF startswith(ls[1], <<"#", "!">>) THEN Tail(ls) ELSE ls

\* The pop looking at the first line alone.
drop_coding_first_line(l, ls) ==
  IF l.name = "python" /\ Len(ls) >= 1 /\ is_coding(ls[1]) THEN Tail(ls)
  ELSE ls

\* The first of the first two lines that holds an encoding declaration is
\* popped, for the python descriptor alone.
drop_coding(l, ls) ==
  IF l.name # "python" THEN ls
  ELSE IF Len(ls) >= 1 /\ is_coding(ls[1]) THEN Tail(ls)
  ELSE IF Len(ls) >= 2 /\ is_coding(ls[2]) THEN <<ls[1]>> \o Drop(ls, 2)
  ELSE ls

\* The condition that sends a line into the block-comment branch.
is_delimiter_line(l, line) ==
  /\ l.multistart # NoMarker
  /\ l.multiend # NoMarker
  /\ \E delim \in {l.multistart, l.multiend} :
       startswith(lstrip(line), delim) \/ endswith(rstrip(line), delim)

\* multi_line after the toggle and the single-line block comment reset.
toggle_multi_line(l, line, ml) ==
  IF ~ml /\ endswith(strip(line), l.multiend)
         /\ Len(strip(line)) > Len(l.multiend)
  THEN FALSE
  ELSE ~ml

\* The test without its "not multi_line" conjunct.
delimiter_is_code_in_block(l, line, ml, ms) ==
  ~startswith(strip(line), l.multistart) \/ ms

\* The test without its multi_string disjunct.
delimiter_is_code_no_string(l, line, ml, ms) ==
  ~startswith(strip(line), l.multistart) /\ ~toggle_multi_line(l, line, ml)

\* The delimiter line is a string delimiter, processed as code.
delimiter_is_code(l, line, ml, ms) ==
  \/ ~startswith(strip(line), l.multistart) /\ ~toggle_multi_line(l, line, ml)
  \/ ms

\* The chain with the comment matcher tried before multi_line.
classify_comment_first(l, line, ml, ms) ==
  IF is_delimiter_line(l, line)
  THEN IF delimiter_is_code(l, line, ml, ms) THEN "delimiter_code"
       ELSE "delimiter_comment"
  ELSE IF comment_matcher(l, line) THEN "comment"
  ELSE IF ml THEN "block"
  ELSE "code"

\* The branch of the loop body a line takes: the if/elif chain over the
\* delimiter test, multi_line and the comment matcher.
classify(l, line, ml, ms) ==
  IF is_delimiter_line(l, line)
  THEN IF delimiter_is_code(l, line, ml, ms) THEN "delimiter_code"
       ELSE "delimiter_comment"
  ELSE IF ml THEN "block"
  ELSE IF comment_matcher(l, line) THEN "comment"
  ELSE "code"

\* any(line.lstrip().startswith(x) for x in ['class ', 'def ', '@'])
StructuralPrefixes ==
  {<<"c", "l", "a", "s", "s", SP>>, <<"d", "e", "f", SP>>, <<"@">>}

is_structural(line) == \E x \in StructuralPrefixes : startswith(lstrip(line), x)

\* The code section closes before a class, def or decorator line, unless the
\* accumulated code begins with a decorator.
closes_section(code, line) ==
  /\ code # <<>>
  /\ is_structural(line)
  /\ ~startswith(lstrip(code), <<"@">>)

\* The in-block branch: leading spaces as long as the recorded indentation
\* are removed when the line has them (re.match(r' {n}', line)).
strip_indent(indent, line) ==
  IF Len(indent) <= Len(line) /\ \A k \in 1..Len(indent) : line[k] = SP
  THEN Drop(line, Len(indent))
  ELSE line

(***************************************************************************)
(* destination: the HTML path of a source path.  A call returns            *)
(* [error, value]: error is "" when it returns value, else the exception.  *)
(***************************************************************************)
SEP == "/"

Return(v) == [error |-> "", value |-> v]

Raise(e) == [error |-> e, value |-> <<>>]

\* p.rfind('/') + 1
AfterLastSep(p) ==
  LET at == {k \in 1..Len(p) : p[k] = SEP}
  IN IF at = {} THEN 0 ELSE CHOOSE k \in at : \A j \in at : j <= k

\* head.rstrip('/')
RECURSIVE rstrip_sep(_)
rstrip_sep(p) ==
  IF p # <<>> /\ p[Len(p)] = SEP THEN rstrip_sep(Take(p, Len(p) - 1)) ELSE p

\* os.path.split (posixpath)
path_split(p) ==
  LET head == Take(p, AfterLastSep(p))
  IN [head |-> IF head # <<>> /\ \E k \in 1..Len(head) : head[k] # SEP
               THEN rstrip_sep(head)
               ELSE head,
      tail |-> Drop(p, AfterLastSep(p))]

\* os.path.basename
basename(p) == Drop(p, AfterLastSep(p))

\* os.path.join of two components
path_join(a, b) ==
  IF startswith(b, <<SEP>>) THEN b
  ELSE IF a = <<>> \/ endswith(a, <<SEP>>) THEN a \o b
  ELSE a \o <<SEP>> \o b

\* re.sub(r"\.[^.]*$", "", filename): the last dot and what follows it.
strip_extension(filename) ==
  LET dots == {k \in 1..Len(filename) : filename[k] = "."}
  IN IF dots = {} THEN filename
     ELSE Take(filename, (CHOOSE k \in dots : \A j \in dots : j <= k) - 1)

HtmlExt == <<".", "h", "t", "m", "l">>

\* destination without the re-anchoring.
anchor_dest_missing(dest, outdir) == dest

\* The re-anchoring under outdir when the join escaped it.
anchor_dest(dest, outdir) ==
  IF ~startswith(dest, outdir) THEN outdir \o <<SEP>> \o dest ELSE dest

destination(filepath, preserve_paths, outdir) ==
  LET parts == path_split(filepath)
      stem == strip_extension(parts.tail)
      name == IF preserve_paths THEN path_join(parts.head, stem) ELSE stem
  IN IF outdir = <<>>
     THEN Raise("TypeError")
     ELSE Return(anchor_dest(path_join(outdir, name \o HtmlExt), outdir))

(***************************************************************************)
(* preprocess: the section-heading and cross-reference rewrites.           *)
(***************************************************************************)
\* str.lower() on the modelled alphabet.
lower_char(c) ==
  CASE c = "D" -> "d" [] c = "I" -> "i" [] c = "V" -> "v" [] c = "E" -> "e"
    [] c = "R" -> "r" [] c = "A" -> "a" [] c = "T" -> "t" [] OTHER -> c

lower(s) == [k \in 1..Len(s) |-> lower_char(s[k])]

\* "-".join(name.lower().strip().split(" "))
sanitize_section_name(name) ==
  LET t == strip(lower(name))
  IN [k \in 1..Len(t) |-> IF t[k] = SP THEN "-" ELSE t[k]]

\* Length of the run of characters of s, from the left, that are in set.
RECURSIVE RunOf(_, _)
RunOf(s, set) ==
  IF s # <<>> /\ Head(s) \in set THEN 1 + RunOf(Tail(s), set) ELSE 0

\* Length of the run of characters of s, from the left, other than c.
RECURSIVE RunNot(_, _)
RunNot(s, c) ==
  IF s # <<>> /\ Head(s) # c THEN 1 + RunNot(Tail(s), c) ELSE 0

\* '{lvl} <span id="{id}" href="{id}">{name}</span>'
replace_section_name(lvl, name) ==
  [k \in 1..lvl |-> "#"]
  \o <<SP, "<span id=\"">> \o sanitize_section_name(name)
  \o <<"\" href=\"">> \o sanitize_section_name(name) \o <<"\">">>
  \o name \o <<"</span>">>

\* re.sub('^([=]+)([^=]+)[=]*\s*$', replace_section_name, comment): without
\* MULTILINE the pattern can only match the whole comment.
sub_section_name(comment) ==
  LET lvl == RunOf(comment, {"="})
      body == Drop(comment, lvl)
      n == RunNot(body, "=")
      rest == Drop(body, n)
      tail == Drop(rest, RunOf(rest, {"="}))
  IN IF lvl >= 1 /\ n >= 1 /\ RunOf(tail, Whitespace) = Len(tail)
     THEN replace_section_name(lvl, Take(body, n))
     ELSE comment

\* The positions of '#' in the reference.
Hashes(ref) == {k \in 1..Len(ref) : ref[k] = "#"}

\* replace_crossref giving the whole destination path as the target.
replace_crossref_full_path(ref, preserve_paths, outdir) ==
  LET h == Hashes(ref)
  IN IF h = {}
     THEN Return(<<SP, "[">> \o ref \o <<"]", "(">>
                 \o destination(ref, preserve_paths, outdir).value
                 \o <<")">>)
     ELSE IF Cardinality(h) > 1
     THEN Raise("ValueError")
     ELSE LET at == CHOOSE k \in h : TRUE
              name == Take(ref, at - 1)
              anchor == Drop(ref, at)
          IN Return(<<SP, "[">> \o name \o <<"]", "(">>
                    \o destination(name, preserve_paths, outdir).value
                    \o <<"#">> \o anchor \o <<")">>)

\* replace_crossref for the text between [[ and ]]: name, anchor =
\* match.group(1).split('#') raises ValueError unless there is one '#'.
replace_crossref(ref, preserve_paths, outdir) ==
  LET h == Hashes(ref)
  IN IF h = {}
     THEN Return(<<SP, "[">> \o ref \o <<"]", "(">>
                 \o basename(destination(ref, preserve_paths, outdir).value)
                 \o <<")">>)
     ELSE IF Cardinality(h) > 1
     THEN Raise("ValueError")
     ELSE LET at == CHOOSE k \in h : TRUE
              name == Take(ref, at - 1)
              anchor == Drop(ref, at)
          IN Return(<<SP, "[">> \o name \o <<"]", "(">>
                    \o basename(destination(name, preserve_paths, outdir).value)
                    \o <<"#">> \o anchor \o <<")">>)

\* Length of the shortest (.+?) after an opening [[ that is followed by ]],
\* or 0 when there is none; '.' does not match a newline.
RefLength(s) ==
  LET ok == {n \in 1..(Len(s) - 2) :
               /\ \A k \in 1..n : s[k] # NL
               /\ s[n + 1] = "]" /\ s[n + 2] = "]"}
  IN IF ok = {} THEN 0 ELSE CHOOSE n \in ok : \A m \in ok : n <= m

\* The second re.sub of preprocess: every [[ref]] that no backtick precedes
\* is replaced, scanning s with prev the character before it ("" at the
\* start of the comment).  is_crossref: a reference starts at the head of s.
is_crossref(s, prev) ==
  startswith(s, <<"[", "[">>) /\ prev # BQ /\ RefLength(Drop(s, 2)) > 0

\* Some replace_crossref call of the substitution raises.
RECURSIVE crossref_raises(_, _, _, _)
crossref_raises(s, prev, preserve_paths, outdir) ==
  IF s = <<>> THEN FALSE
  ELSE IF is_crossref(s, prev)
  THEN \/ replace_crossref(SubSeq(s, 3, RefLength(Drop(s, 2)) + 2),
                           preserve_paths, outdir).error # ""
       \/ crossref_raises(Drop(s, RefLength(Drop(s, 2)) + 4), "]",
                          preserve_paths, outdir)
  ELSE crossref_raises(Tail(s), Head(s), preserve_paths, outdir)

\* The text the substitution gives when no call raises.
RECURSIVE crossref_text(_, _, _, _)
crossref_text(s, prev, preserve_paths, outdir) ==
  IF s = <<>> THEN <<>>
  ELSE IF is_crossref(s, prev)
  THEN replace_crossref(SubSeq(s, 3, RefLength(Drop(s, 2)) + 2),
                        preserve_paths, outdir).value
       \o crossref_text(Drop(s, RefLength(Drop(s, 2)) + 4), "]",
                        preserve_paths, outdir)
  ELSE <<Head(s)>> \o crossref_text(Tail(s), Head(s), preserve_paths, outdir)

sub_crossref(s, preserve_paths, outdir) ==
  IF crossref_raises(s, "", preserve_paths, outdir)
  THEN Raise("ValueError")
  ELSE Return(crossref_text(s, "", preserve_paths, outdir))

preprocess(comment, preserve_paths, outdir) ==
  IF outdir = <<>>
  THEN Raise("TypeError")
  ELSE sub_crossref(sub_section_name(comment), preserve_paths, outdir)

(***************************************************************************)
(* highlight: one call of the highlighter on the joined code, split back   *)
(* into one fragment per section.  Markup is a sequence whose elements are *)
(* characters or whole tags.                                               *)
(***************************************************************************)
HIGHLIGHT_START == "<div class=\"highlight\"><pre>"

HIGHLIGHT_END == "</pre></div>"

\* sep.join(parts)
RECURSIVE join(_, _)
join(sep, parts) ==
  IF parts = <<>> THEN <<>>
  ELSE IF Len(parts) = 1 THEN parts[1]
  ELSE parts[1] \o sep \o join(sep, Tail(parts))

\* The divider comment as the highlighter renders it, which
\* l["divider_html"] matches.
divider_span(l) ==
  <<"<span class=\"c\">">> \o l.symbol \o DividerWord \o <<"</span>">>

\* The markup of the code: each divider comment becomes its span, all other
\* text is echoed.
RECURSIVE markup(_, _)
markup(l, text) ==
  IF text = <<>> THEN <<>>
  ELSE IF startswith(text, l.symbol \o DividerWord)
  THEN divider_span(l)
       \o markup(l, Drop(text, Len(l.symbol) + Len(DividerWord)))
  ELSE <<Head(text)>> \o markup(l, Tail(text))

\* pygments.highlight(text, lexer, html formatter): the markup in the fixed
\* wrapper, followed by a newline.
pygments_highlight(l, text) ==
  <<HIGHLIGHT_START>> \o markup(l, text) \o <<HIGHLIGHT_END, NL>>

\* re.split(language["divider_html"], output): the pattern is the span with
\* every newline before and after it; piece is the text since the last match.
RECURSIVE re_split(_, _, _)
re_split(l, s, piece) ==
  IF s = <<>> THEN <<piece>>
  ELSE IF startswith(Drop(s, RunOf(s, {NL})), divider_span(l))
  THEN LET rest == Drop(s, RunOf(s, {NL}) + Len(divider_span(l)))
       IN <<piece>> \o re_split(l, Drop(rest, RunOf(rest, {NL})), <<>>)
  ELSE re_split(l, Tail(s), Append(piece, Head(s)))

\* pycco_zip_longest(fragments, sections, range(len(sections)), fillvalue="")
FillValue == <<>>

pycco_zip_longest(fragments, secs) ==
  LET n == IF Len(fragments) > Len(secs) THEN Len(fragments) ELSE Len(secs)
  IN [k \in 1..n |->
       [fragment |-> IF k <= Len(fragments) THEN fragments[k] ELSE FillValue,
        section |-> IF k <= Len(secs) THEN secs[k] ELSE FillValue,
        num |-> IF k <= Len(secs) THEN k - 1 ELSE FillValue]]

\* markdown(text), the prose renderer.
markdown(text) == <<"<markdown>">> \o text \o <<"</markdown>">>

\* highlight_section(fragment, section, i): subscripting the fill value ""
\* with "docs_text" raises TypeError.
highlight_section(z, preserve_paths, outdir) ==
  IF outdir = <<>> THEN Raise("TypeError")
  ELSE IF z.section = FillValue THEN Raise("TypeError")
  ELSE LET docs == preprocess(z.section.docs_text, preserve_paths, outdir)
       IN IF docs.error # "" THEN docs
          ELSE Return([code_html |-> <<HIGHLIGHT_START>> \o z.fragment
                                     \o <<HIGHLIGHT_END>>,
                       docs_html |-> markdown(docs.value),
                       num |-> z.num])

\* The fragments highlight splits the highlighter's output into.
fragments_of(secs, l) ==
  LET text == join(divider_text(l),
                   [k \in 1..Len(secs) |-> rstrip(secs[k].code_text)])
      out == replace(replace(pygments_highlight(l, text), <<HIGHLIGHT_START>>),
                     <<HIGHLIGHT_END>>)
  IN re_split(l, out, <<>>)

highlight(secs, l, preserve_paths, outdir) ==
  LET zipped == pycco_zip_longest(fragments_of(secs, l), secs)
      made == [k \in 1..Len(zipped) |->
                highlight_section(zipped[k], preserve_paths, outdir)]
      bad == {k \in 1..Len(made) : made[k].error # ""}
  IN IF bad # {}
     THEN made[CHOOSE k \in bad : \A j \in bad : k <= j]
     ELSE Return([k \in 1..Len(made) |-> made[k].value])

(***************************************************************************)
(* get_language.  language is <<>> for None and <<name>> for a forced      *)
(* name; guess is what lexers.guess_lexer(code).name.lower() gives, <<>>   *)
(* when pygments finds no lexer.                                           *)
(***************************************************************************)
\* The descriptors whose name is the given one.
named(name) == {e \in DOMAIN languages : languages[e].name = name}

\* re.match(r'.*(\..+)', os.path.basename(source)).group(1), <<>> when there
\* is no match: from the last dot that a character follows.
extension(source) ==
  LET base == basename(source)
      dots == {k \in 1..(Len(base) - 1) : base[k] = "."}
  IN IF source = <<>> \/ dots = {} THEN <<>>
     ELSE Drop(base, (CHOOSE k \in dots : \A j \in dots : j <= k) - 1)

\* The lookup by name when a language is forced.
forced_language(name) ==
  IF named(name) # {}
  THEN Return(languages[CHOOSE e \in named(name) : TRUE])
  ELSE Raise("ValueError: Unknown forced language")

\* get_language looking at the extension before the forced name.
get_language_extension_first(source, guess, language) ==
  IF extension(source) \in DOMAIN languages
  THEN Return(languages[extension(source)])
  ELSE IF language # <<>> THEN forced_language(language[1])
  ELSE IF guess # <<>> /\ named(guess[1]) # {}
  THEN Return(languages[CHOOSE e \in named(guess[1]) : TRUE])
  ELSE Raise("ValueError: Can't figure out the language!")

get_language(source, guess, language) ==
  IF language # <<>> THEN forced_language(language[1])
  ELSE IF extension(source) \in DOMAIN languages
  THEN Return(languages[extension(source)])
  ELSE IF guess # <<>> /\ named(guess[1]) # {}
  THEN Return(languages[CHOOSE e \in named(guess[1]) : TRUE])
  ELSE Raise("ValueError: Can't figure out the language!")

(***************************************************************************)
(* The sources parse is run on.  A source is code.split("\n"): a non-empty *)
(* sequence of lines holding no newline.  Each language gets lines built   *)
(* from its own markers, one per way the segmenter can classify a line.    *)
(***************************************************************************)
MaxLines == 3

ParseLanguages ==
  {languages[ExtPy], languages[ExtC], languages[ExtPl], languages[ExtSql]}

LineBlank == <<>>
LineCode == <<"x">>
LineIndented == <<SP, SP, "y">>
LineDef == <<"d", "e", "f", SP, "f">>
LineDecorator == <<"@", "d">>
LineShebang == <<"#", "!", "x">>
LineCoding == <<"c", "o", "d", "i", "n", "g", "=", "u">>

LineComment(l) == l.symbol \o <<SP, "c">>
LineOpen(l) == l.multistart
LineClose(l) == l.multiend
LineString(l) == <<"x">> \o l.multiend
LineDocstring(l) == l.multistart \o <<"d">> \o l.multiend
LineOpenText(l) == <<SP, SP>> \o l.multistart \o <<"t">>

LinePool(l) ==
  {LineBlank, LineCode, LineIndented, LineDef, LineDecorator, LineShebang, LineCoding,
   LineComment(l)}
  \cup (IF l.multistart = NoMarker THEN {}
        ELSE {LineOpen(l), LineClose(l), LineString(l), LineDocstring(l),
              LineOpenText(l)})

Sources(l) ==
  UNION {[1..n -> LinePool(l)] : n \in 1..MaxLines}

VARIABLES
  pc,             \* where the run is: "start", "loop", "parsed", "done",
                  \* "parse_raised", "highlight_raised"; "call", "returned"
  language,       \* the descriptor parse and highlight are given
  source,         \* code.split("\n") as parse first sees it
  lines,          \* the list the loop runs over, after the pops
  pos,            \* index in lines of the next line of the loop
  sections,       \* the sections saved so far
  has_code, docs_text, code_text,
  multi_line, multi_string,
  indent_level,   \* <<>> while the local is unbound, <<prefix>> once assigned
  code_lines,     \* history: the lines processed as code, in order
  closed_by,      \* history: for each section, the save that appended it
  trace,          \* history: for each line of the loop, the branch it took
                  \* and the locals after it
  output,         \* what highlight returned, <<>> before
  call,           \* the function called on its own and its arguments
  ret             \* what that call returned or raised

vars ==
  <<pc, language, source, lines, pos, sections, has_code, docs_text, code_text,
    multi_line, multi_string, indent_level, code_lines, closed_by, trace,
    output, call, ret>>

\* The locals of parse before its loop.
ParseLocals ==
  /\ pos = 1
  /\ sections = <<>>
  /\ has_code = FALSE
  /\ docs_text = <<>>
  /\ code_text = <<>>
  /\ multi_line = FALSE
  /\ multi_string = FALSE
  /\ indent_level = <<>>
  /\ code_lines = <<>>
  /\ closed_by = <<>>
  /\ trace = <<>>
  /\ output = <<>>

NoCall == [fn |-> "none"]

Pending == Raise("pending")

\* _generate_documentation on a source: parse, then highlight.
Init ==
  /\ pc = "start"
  /\ language \in ParseLanguages
  /\ source \in Sources(language)
  /\ lines = source
  /\ ParseLocals
  /\ call = NoCall
  /\ ret = Pending

\* closed_by after a save that may or may not have appended a section.
Closed(secs, kind) ==
  IF Len(secs) > Len(sections) THEN Append(closed_by, kind) ELSE closed_by

\* The shebang and encoding-declaration pops before the loop.
Preprocess ==
  /\ pc = "start"
  /\ lines' = drop_coding(language, drop_shebang(lines))
  /\ pc' = "loop"
  /\ UNCHANGED <<language, source, pos, sections, has_code, docs_text,
                 code_text, multi_line, multi_string, indent_level, code_lines,
                 closed_by, trace, output, call, ret>>

\* if process_as_code: the class/def/decorator close, then the append.
ProcessAsCode(line) ==
  LET close == closes_section(code_text, line)
      secs == IF close THEN save(sections, docs_text, code_text) ELSE sections
  IN /\ sections' = secs
     /\ closed_by' = Closed(secs, "def")
     /\ docs_text' = IF close THEN <<>> ELSE docs_text
     /\ code_text' = (IF close THEN <<>> ELSE code_text) \o line \o <<NL>>
     /\ has_code' = TRUE
     /\ code_lines' = Append(code_lines, line)

InLoop == pc = "loop" /\ pos <= Len(lines)

\* The branch the next line of the loop takes.
Branch == classify(language, lines[pos], multi_line, multi_string)

\* trace after a line that took the branch: the locals are those after it.
Traced(branch) ==
  Append(trace, [branch |-> branch,
                 multi_line |-> multi_line',
                 multi_string |-> multi_string',
                 docs_text |-> docs_text',
                 code_text |-> code_text',
                 has_code |-> has_code',
                 indent_level |-> indent_level',
                 nsections |-> Len(sections')])

\* A delimiter line processed as code: a string delimiter.
DelimiterAsCode ==
  /\ InLoop
  /\ Branch = "delimiter_code"
  /\ multi_line' = IF multi_string THEN FALSE
                   ELSE toggle_multi_line(language, lines[pos], multi_line)
  /\ multi_string' = ~multi_string
  /\ ProcessAsCode(lines[pos])
  /\ pos' = pos + 1
  /\ UNCHANGED <<pc, language, source, lines, indent_level, output, call, ret>>
  /\ trace' = Traced("delimiter_code")

\* A delimiter line that opens, closes or is a block comment.
DelimiterAsComment ==
  /\ InLoop
  /\ Branch = "delimiter_comment"
  /\ LET line == replace(replace(lines[pos], language.multistart),
                         language.multiend)
         docs == docs_text \o strip(line) \o <<NL>>
         close == has_code /\ strip(docs) # <<>>
         secs == IF close
                 THEN save(sections, docs, Take(code_text, Len(code_text) - 1))
                 ELSE sections
     IN /\ multi_line' = toggle_multi_line(language, lines[pos], multi_line)
        /\ indent_level' = <<Take(line, LeadingSpace(line))>>
        /\ sections' = secs
        /\ closed_by' = Closed(secs, "block")
        /\ code_text' = IF close THEN LastLine(code_text) ELSE code_text
        /\ has_code' = IF close THEN FALSE ELSE has_code
        /\ docs_text' = IF close THEN <<>> ELSE docs
  /\ pos' = pos + 1
  /\ UNCHANGED <<pc, language, source, lines, multi_string, code_lines, output,
                 call, ret>>
  /\ trace' = Traced("delimiter_comment")

\* A line inside an open block comment.  Reading indent_level while it is
\* unbound raises.
InBlock ==
  /\ InLoop
  /\ Branch = "block"
  /\ IF indent_level = <<>>
     THEN /\ pc' = "parse_raised"
          /\ UNCHANGED <<docs_text, pos>>
     ELSE /\ docs_text' =
               docs_text \o strip_indent(indent_level[1], lines[pos]) \o <<NL>>
          /\ pos' = pos + 1
          /\ pc' = pc
  /\ UNCHANGED <<language, source, lines, sections, has_code, code_text,
                 multi_line, multi_string, indent_level, code_lines, closed_by,
                 output, call, ret>>
  /\ trace' = IF indent_level = <<>> THEN trace ELSE Traced("block")

\* A line comment.
Comment ==
  /\ InLoop
  /\ Branch = "comment"
  /\ LET secs == IF has_code THEN save(sections, docs_text, code_text)
                 ELSE sections
     IN /\ sections' = secs
        /\ closed_by' = Closed(secs, "comment")
        /\ docs_text' = (IF has_code THEN <<>> ELSE docs_text)
                        \o strip_comment(language, lines[pos]) \o <<NL>>
        /\ code_text' = IF has_code THEN <<>> ELSE code_text
        /\ has_code' = FALSE
  /\ pos' = pos + 1
  /\ UNCHANGED <<pc, language, source, lines, multi_line, multi_string,
                 indent_level, code_lines, output, call, ret>>
  /\ trace' = Traced("comment")

\* Everything else is code.
Code ==
  /\ InLoop
  /\ Branch = "code"
  /\ ProcessAsCode(lines[pos])
  /\ pos' = pos + 1
  /\ UNCHANGED <<pc, language, source, lines, multi_line, multi_string,
                 indent_level, output, call, ret>>
  /\ trace' = Traced("code")

\* End of input: the final save, and parse returns sections.
Flush ==
  /\ pc = "loop"
  /\ pos > Len(lines)
  /\ sections' = save(sections, docs_text, code_text)
  /\ closed_by' = Closed(save(sections, docs_text, code_text), "flush")
  /\ pc' = "parsed"
  /\ UNCHANGED <<language, source, lines, pos, has_code, docs_text, code_text,
                 multi_line, multi_string, indent_level, code_lines,
                 trace, output, call, ret>>

\* The output directory and path mode _generate_documentation is given.
DocsOutdir == <<"o">>

DocsPreservePaths == TRUE

\* highlight(sections, language, preserve_paths=..., outdir=...)
Highlight ==
  /\ pc = "parsed"
  /\ LET r == highlight(sections, language, DocsPreservePaths, DocsOutdir)
     IN IF r.error = ""
        THEN /\ output' = r.value
             /\ pc' = "done"
        ELSE /\ output' = output
             /\ pc' = "highlight_raised"
  /\ UNCHANGED <<language, source, lines, pos, sections, has_code, docs_text,
                 code_text, multi_line, multi_string, indent_level, code_lines,
                 closed_by, trace, call, ret>>

Next ==
  \/ Preprocess
  \/ DelimiterAsCode
  \/ DelimiterAsComment
  \/ InBlock
  \/ Comment
  \/ Code
  \/ Flush
  \/ Highlight

Spec == Init /\ [][Next]_vars

(***************************************************************************)
(* destination, preprocess and get_language called on their own, on        *)
(* arguments drawn from bounded sets.                                      *)
(***************************************************************************)
MaxPathLen == 4

MaxOutdirLen == 2

Strings(alphabet, n) == UNION {[1..k -> alphabet] : k \in 0..n}

FilePaths == Strings({SEP, ".", "a"}, MaxPathLen)

Outdirs == Strings({SEP, "a"}, MaxOutdirLen)

\* Comments with cross-references, headings and none of either.
Comments ==
  {<<>>,
   <<"a", NL>>,
   <<"[", "[", "a", ".", "p", "y", "]", "]">>,
   <<"[", "[", "a", ".", "p", "y", "#", "t", "]", "]", NL>>,
   <<"[", "[", "d", SEP, "a", ".", "p", "y", "#", "t", "]", "]">>,
   <<"[", "[", SEP, "a", ".", "p", "y", "#", "t", "]", "]">>,
   <<"[", "[", "a", "#", "b", "#", "t", "]", "]">>,
   <<"x", BQ, "[", "[", "a", ".", "p", "y", "]", "]">>,
   <<"x", SP, "[", "[", "a", "]", "]", SP, "[", "[", "b", "#", "t", "]", "]">>,
   <<"[", "[", "a", NL, "]", "]">>,
   <<"[", "[", "]", "]">>,
   <<"=", "=", "A", SP, "T", "=", "=", NL>>,
   <<"=", "a", "=", "b">>}

\* Comments that hold one cross-reference with an anchor: the file named,
\* the anchor, and the text before and after the reference.
RefNames ==
  {<<"a", ".", "p", "y">>,
   <<"d", SEP, "a", ".", "p", "y">>,
   <<SEP, "a", ".", "p", "y">>,
   <<"a">>,
   <<"d", SEP>>,
   <<"a", ".", "b", ".", "p", "y">>}

RefAnchors == {<<"t">>, <<>>}

RefBefore == {<<>>, <<"x", SP>>, <<"x", NL>>}

RefAfter == {<<>>, <<SP, "y">>}

CrossRef(F, A) == <<"[", "[">> \o F \o <<"#">> \o A \o <<"]", "]">>

RefComments ==
  {pre \o CrossRef(F, A) \o post :
     pre \in RefBefore, F \in RefNames, A \in RefAnchors, post \in RefAfter}

\* Source paths, lexer guesses and forced names for get_language.
LanguagePaths ==
  {<<>>, <<"a">>, <<"a">> \o ExtPy, <<"a">> \o ExtC, ExtPy,
   <<"a">> \o ExtPy \o <<".">>, <<"d", SEP, "a">> \o ExtPl,
   <<"d", ".", "c", SEP, "a">>, <<"a", ".", "z">>}

Guesses == {<<>>, <<"python">>, <<"text only">>}

ForcedNames == {<<>>, <<"python">>, <<"perl">>, <<"non-existent">>, <<"">>}

Calls ==
  [fn : {"destination"}, filepath : FilePaths, preserve_paths : BOOLEAN,
   outdir : Outdirs]
  \cup [fn : {"preprocess"}, comment : Comments \cup RefComments,
        preserve_paths : BOOLEAN,
        outdir : Outdirs]
  \cup [fn : {"get_language"}, source : LanguagePaths, guess : Guesses,
        language : ForcedNames]

InitFn ==
  /\ pc = "call"
  /\ call \in Calls
  /\ ret = Pending
  /\ language = languages[ExtPy]
  /\ source = <<>>
  /\ lines = <<>>
  /\ ParseLocals

Idle ==
  UNCHANGED <<language, source, lines, pos, sections, has_code, docs_text,
              code_text, multi_line, multi_string, indent_level, code_lines,
              closed_by, trace, output, call>>

Destination ==
  /\ pc = "call"
  /\ call.fn = "destination"
  /\ ret' = destination(call.filepath, call.preserve_paths, call.outdir)
  /\ pc' = "returned"
  /\ Idle

PreprocessComment ==
  /\ pc = "call"
  /\ call.fn = "preprocess"
  /\ ret' = preprocess(call.comment, call.preserve_paths, call.outdir)
  /\ pc' = "returned"
  /\ Idle

GetLanguage ==
  /\ pc = "call"
  /\ call.fn = "get_language"
  /\ ret' = get_language(call.source, call.guess, call.language)
  /\ pc' = "returned"
  /\ Idle

NextFn ==
  \/ Destination
  \/ PreprocessComment
  \/ GetLanguage

SpecFn == InitFn /\ [][NextFn]_vars

(***************************************************************************)
(* Properties of parse and highlight, checked under Spec.                  *)
(***************************************************************************)
\* parse has returned its sections.
Returned == pc \in {"parsed", "done", "highlight_raised"}

\* The code text of every section, in section order.
SectionCode == [k \in 1..Len(sections) |-> sections[k].code_text]

\* The comment text of every section, in section order.
SectionDocs == [k \in 1..Len(sections) |-> sections[k].docs_text]

\* Each line followed by its newline.
Terminated(ls) == [k \in 1..Len(ls) |-> ls[k] \o <<NL>>]

\* C1: every section parse appends has a non-empty comment text or a
\* non-empty code text, whichever save appended it.
C1_NoEmptySection ==
  \A k \in 1..Len(sections) :
    sections[k].docs_text # <<>> \/ sections[k].code_text # <<>>

\* C1: a block-comment close appended the one section, and the final save,
\* given an empty comment and empty code, appended nothing.
C1_Witness ==
  /\ pc = "parsed"
  /\ closed_by = <<"block">>
  /\ docs_text = <<>>
  /\ code_text = <<>>

\* C2 as stated: the code texts of the returned sections, concatenated in
\* order, are exactly the lines processed as code, each with its newline.
C2_CodeReconstructed ==
  Returned => Concat(SectionCode) = Concat(Terminated(code_lines))

\* The code text of section k with the newline restored that the
\* block-comment close cut from it (code_text[:-1]).
RestoredCode(k) ==
  sections[k].code_text \o (IF closed_by[k] = "block" THEN <<NL>> ELSE <<>>)

\* C2 amended: the code texts of the returned sections, concatenated in
\* order, are exactly the lines processed as code, each once and in order,
\* except that a section closed by a block-comment delimiter line lacks the
\* newline that ended its last code line.
C2_CodeReconstructedButNewline ==
  Returned =>
    Concat([k \in 1..Len(sections) |-> RestoredCode(k)])
      = Concat(Terminated(code_lines))

\* C2: a block-comment close and a later save each appended a section with
\* code.
C2_Witness ==
  /\ pc = "parsed"
  /\ Len(sections) >= 2
  /\ closed_by[1] = "block"
  /\ \A k \in 1..Len(sections) : sections[k].code_text # <<>>
  /\ Len(code_lines) >= 2

\* Entry k of highlight's result, as highlight_section builds it from the
\* k-th fragment and the k-th section's comment text.
ExpectedEntry(k) ==
  [code_html |-> <<HIGHLIGHT_START>> \o fragments_of(sections, language)[k]
                 \o <<HIGHLIGHT_END>>,
   docs_html |-> markdown(preprocess(sections[k].docs_text, DocsPreservePaths,
                                     DocsOutdir).value),
   num |-> k - 1]

\* C3 as stated: for every list of N >= 0 sections, highlight returns (it
\* does not raise) exactly N entries, entry i built from the i-th fragment
\* and the i-th section's comment text, with num = i.
C3_HighlightKeepsCount ==
  /\ pc # "highlight_raised"
  /\ pc = "done" =>
       /\ Len(output) = Len(sections)
       /\ \A k \in 1..Len(sections) : output[k] = ExpectedEntry(k)

\* C3 for N >= 1, where the code agrees with the claim.
C3_NonEmptyKeepsCount ==
  Returned /\ Len(sections) >= 1 =>
    /\ pc # "highlight_raised"
    /\ pc = "done" =>
         /\ Len(output) = Len(sections)
         /\ \A k \in 1..Len(sections) : output[k] = ExpectedEntry(k)

\* The source after the removal of a first-line shebang.
AfterShebang ==
  IF startswith(source[1], <<"#", "!">>) THEN Tail(source) ELSE source

\* A line comment with its marker stripped: the leading whitespace, the
\* symbol and one whitespace character after it are gone.
MarkerStripped(line) ==
  LET rest == Drop(lstrip(line), Len(language.symbol))
  IN IF rest # <<>> /\ Head(rest) \in Whitespace THEN Tail(rest) ELSE rest

\* The lines of ls the line-comment matcher matches, marker stripped, each
\* with its newline, concatenated.
RECURSIVE CommentsOf(_)
CommentsOf(ls) ==
  IF ls = <<>> THEN <<>>
  ELSE (IF startswith(lstrip(Head(ls)), language.symbol)
        THEN MarkerStripped(Head(ls)) \o <<NL>>
        ELSE <<>>) \o CommentsOf(Tail(ls))

\* C5 as stated: for a language without block-comment markers the comment
\* texts of the sections, in order, are exactly the input lines that match
\* the line-comment matcher, marker stripped.
C5_CommentsKept ==
  Returned /\ language.multistart = NoMarker =>
    Concat(SectionDocs) = CommentsOf(source)

\* C5 amended: for a language without block-comment markers the comment
\* texts of the sections, in order, are exactly the lines that match the
\* line-comment matcher among those left once a first-line shebang is
\* removed, marker stripped: a shebang line that matches the matcher is
\* dropped and appears in no comment text.
C5_CommentsKeptButShebang ==
  Returned /\ language.multistart = NoMarker =>
    Concat(SectionDocs) = CommentsOf(AfterShebang)

\* C5: a shebang that the line-comment matcher matches was dropped, and a
\* section holds the comment line and the code line after it.
C5_Witness ==
  /\ pc = "parsed"
  /\ language.multistart = NoMarker
  /\ startswith(source[1], <<"#", "!">>)
  /\ startswith(source[1], language.symbol)
  /\ Len(sections) = 1
  /\ sections[1].docs_text # <<>>
  /\ sections[1].code_text # <<>>

\* The state before line j of the loop.
Before(j) ==
  IF j = 1
  THEN [multi_line |-> FALSE, multi_string |-> FALSE, docs_text |-> <<>>,
        nsections |-> 0]
  ELSE [multi_line |-> trace[j - 1].multi_line,
        multi_string |-> trace[j - 1].multi_string,
        docs_text |-> trace[j - 1].docs_text,
        nsections |-> trace[j - 1].nsections]

\* No line of the loop from j + 1 to k - 1 is a block-delimiter line.
NoDelimiterBetween(j, k) ==
  \A m \in (j + 1)..(k - 1) : ~is_delimiter_line(language, lines[m])

\* Line j opened a block comment that no later line delimits.
Unterminated(j) ==
  /\ trace[j].branch = "delimiter_comment"
  /\ trace[j].multi_line
  /\ NoDelimiterBetween(j, Len(lines) + 1)

\* docs is prev with the line appended, leading spaces possibly removed.
AppendedTo(prev, line, docs) ==
  \E n \in 0..Len(line) :
    /\ \A m \in 1..n : line[m] = SP
    /\ docs = prev \o Drop(line, n) \o <<NL>>

\* C6: parse never raises; and once a block comment is opened that no later
\* line delimits, the flag stays on, every remaining line is appended to the
\* comment text by the in-block branch, no section is closed, and the final
\* save puts them all in one last section.
C6_UnterminatedBlock ==
  /\ pc # "parse_raised"
  /\ \A j \in 1..Len(trace) :
       Unterminated(j) =>
         /\ \A k \in (j + 1)..Len(trace) :
              /\ trace[k].branch = "block"
              /\ trace[k].multi_line
              /\ trace[k].nsections = trace[j].nsections
              /\ trace[k].code_text = trace[j].code_text
              /\ AppendedTo(trace[k - 1].docs_text, lines[k], trace[k].docs_text)
         /\ Returned /\ j < Len(lines) =>
              /\ Len(sections) = trace[j].nsections + 1
              /\ sections[Len(sections)].docs_text = trace[Len(trace)].docs_text

\* C6: an unterminated block comment swallowed two lines, the first of them
\* one the line-comment matcher matches, into the final section.
C6_Witness ==
  /\ pc = "parsed"
  /\ \E j \in 1..Len(trace) :
       /\ Unterminated(j)
       /\ j + 2 <= Len(trace)
       /\ comment_matcher(language, lines[j + 1])
       /\ sections[Len(sections)].docs_text = trace[Len(trace)].docs_text
       /\ multi_line

\* The first two lines of ls without each one that holds an encoding
\* declaration.
WithoutCodingLines(ls) ==
  LET d1 == Len(ls) >= 1 /\ is_coding(ls[1])
      d2 == Len(ls) >= 2 /\ is_coding(ls[2])
  IN IF d1 /\ d2 THEN Drop(ls, 2)
     ELSE IF d1 THEN Tail(ls)
     ELSE IF d2 THEN <<ls[1]>> \o Drop(ls, 2)
     ELSE ls

\* The first two lines of ls without the first one that holds an encoding
\* declaration.
WithoutFirstCodingLine(ls) ==
  LET d1 == Len(ls) >= 1 /\ is_coding(ls[1])
      d2 == Len(ls) >= 2 /\ is_coding(ls[2])
  IN IF d1 THEN Tail(ls)
     ELSE IF d2 THEN <<ls[1]>> \o Drop(ls, 2)
     ELSE ls

\* The lines of ls that hold an encoding declaration.
CodingLines(ls) == {k \in 1..Len(ls) : is_coding(ls[k])}

\* C9 as stated: for python every one of the first two lines (after the
\* shebang removal) that holds an encoding declaration is dropped, so that no
\* code text holds one taken from them; for another language none is.
C9_CodingDropped ==
  pc # "start" =>
    /\ lines = IF language.name = "python"
               THEN WithoutCodingLines(AfterShebang)
               ELSE AfterShebang
    /\ language.name = "python" /\ CodingLines(AfterShebang) \subseteq {1, 2} =>
         \A k \in 1..Len(code_lines) : ~is_coding(code_lines[k])

\* C9 amended: for python the first of the first two lines (after the shebang
\* removal) that holds an encoding declaration is dropped, and that line
\* alone: when both hold one, the second stays and is segmented as any other
\* line.  When one line at most holds a declaration and it is among the first
\* two, no code text holds it.  For another language no line is dropped.
C9_FirstCodingDropped ==
  pc # "start" =>
    /\ lines = IF language.name = "python"
               THEN WithoutFirstCodingLine(AfterShebang)
               ELSE AfterShebang
    /\ language.name = "python" /\ CodingLines(AfterShebang) \in {{1}, {2}} =>
         \A k \in 1..Len(code_lines) : ~is_coding(code_lines[k])

\* C9: both of the first two lines hold an encoding declaration; the first
\* was dropped and the second is in the code text of a section.
C9_Witness ==
  /\ pc = "parsed"
  /\ language.name = "python"
  /\ Len(source) >= 2
  /\ is_coding(source[1])
  /\ is_coding(source[2])
  /\ lines = Tail(source)
  /\ \E k \in 1..Len(sections) :
       startswith(sections[k].code_text, source[2])

\* The language uses one token to start and to end a block comment.
SameMarkers ==
  language.multistart # NoMarker /\ language.multistart = language.multiend

\* Line j is a delimiter line met outside a block, with no string open, that
\* ends with the marker and does not start with it.
OpensString(j) ==
  /\ SameMarkers
  /\ ~Before(j).multi_line
  /\ ~Before(j).multi_string
  /\ endswith(rstrip(lines[j]), language.multiend)
  /\ ~startswith(lstrip(lines[j]), language.multistart)

\* Line k is the first delimiter line after line j.
ClosesString(j, k) ==
  /\ j < k
  /\ is_delimiter_line(language, lines[k])
  /\ NoDelimiterBetween(j, k)

\* What C10 says of the flags and of the branches the lines take.
StringIsCode ==
  \A j \in 1..Len(trace) :
    OpensString(j) =>
      /\ trace[j].branch = "delimiter_code"
      /\ trace[j].multi_string
      /\ \A k \in (j + 1)..Len(trace) :
           /\ NoDelimiterBetween(j, k) =>
                trace[k].branch \notin {"delimiter_comment", "block"}
           /\ ClosesString(j, k) =>
                /\ trace[k].branch = "delimiter_code"
                /\ ~trace[k].multi_line
                /\ ~trace[k].multi_string

\* No line from j to k is a line comment.
NoCommentBetween(j, k) == \A m \in j..k : trace[m].branch # "comment"

Called(fn) == pc = "returned" /\ call.fn = fn

\* C4: when a language name is forced, get_language returns the descriptor
\* with that name when one is registered and raises the unknown-language
\* error otherwise, whatever the path and the lexer guess.
C4_ForcedNameDecides ==
  Called("get_language") /\ call.language # <<>> =>
    IF \E e \in DOMAIN languages : languages[e].name = call.language[1]
    THEN /\ ret.error = ""
         /\ ret.value.name = call.language[1]
         /\ \E e \in DOMAIN languages : ret.value = languages[e]
    ELSE ret.error = "ValueError: Unknown forced language"

\* C4: an unregistered name was forced on a path with a known extension and
\* code the lexer guess recognises, and the call raised.
C4_Witness ==
  /\ Called("get_language")
  /\ call.language = <<"non-existent">>
  /\ call.source = <<"a">> \o ExtPy
  /\ call.guess = <<"python">>
  /\ ret.error = "ValueError: Unknown forced language"

\* C7 as stated: with an output directory, preprocess returns a text and
\* never raises, whatever the comment.
C7_PreprocessNeverRaises ==
  Called("preprocess") /\ call.outdir # <<>> => ret.error = ""

\* C8: with a non-empty output directory destination returns a path that
\* starts with the output directory and ends with ".html".
C8_DestinationShape ==
  Called("destination") /\ call.outdir # <<>> =>
    /\ ret.error = ""
    /\ startswith(ret.value, call.outdir)
    /\ endswith(ret.value, HtmlExt)

\* C8: an absolute path with its directories preserved, which the join
\* alone would have put outside the output directory.
C8_Witness ==
  /\ Called("destination")
  /\ call.filepath = <<SEP, "a", ".", "a">>
  /\ call.preserve_paths
  /\ call.outdir = <<"a">>
  /\ ret = Return(<<"a", SEP, SEP, "a">> \o HtmlExt)

\* The base name of F with its extension replaced by ".html".
TargetOf(F) ==
  LET seps == {k \in 1..Len(F) : F[k] = SEP}
      base == IF seps = {} THEN F
              ELSE Drop(F, CHOOSE k \in seps : \A m \in seps : m <= k)
      dots == {k \in 1..Len(base) : base[k] = "."}
      stem == IF dots = {} THEN base
              ELSE Take(base, (CHOOSE k \in dots : \A m \in dots : m <= k) - 1)
  IN stem \o HtmlExt

\* The link to anchor A of file F, with F as its visible text.
LinkTo(F, A) ==
  <<SP, "[">> \o F \o <<"]", "(">> \o TargetOf(F) \o <<"#">> \o A \o <<")">>

\* C11: a cross-reference [[F#A]] that no backtick precedes is rewritten to
\* a link whose visible text is F and whose target is the base name of F
\* with its extension replaced by ".html", then '#' and A; the text around it
\* is kept, and the result is the same for both path-preservation modes and
\* for every output directory.
C11_CrossRefLink ==
  Called("preprocess") /\ call.outdir # <<>> =>
    \A pre \in RefBefore, F \in RefNames, A \in RefAnchors, post \in RefAfter :
      call.comment = pre \o CrossRef(F, A) \o post =>
        ret = Return(pre \o LinkTo(F, A) \o post)

\* C11: a reference to a file in a directory, with the directories preserved
\* and an output directory, was rewritten to a link to the bare file name.
C11_Witness ==
  /\ Called("preprocess")
  /\ call.comment = CrossRef(<<"d", SEP, "a", ".", "p", "y">>, <<"t">>)
  /\ call.preserve_paths
  /\ call.outdir = <<"a">>
  /\ ret = Return(<<SP, "[", "d", SEP, "a", ".", "p", "y", "]", "(", "a">>
                  \o HtmlExt \o <<"#", "t", ")">>)

(***************************************************************************)
(* Properties of the section closes of parse, checked under Spec.          *)
(***************************************************************************)
\* The last line of a code text that ends with a newline.
MostRecentLine(code) ==
  LET body == Take(code, Len(code) - 1)
      nls == {k \in 1..Len(body) : body[k] = NL}
  IN IF nls = {} THEN body
     ELSE Drop(body, CHOOSE k \in nls : \A m \in nls : m <= k)

\* The comment text the delimiter line j adds: the line without its markers,
\* stripped.
AddedText(j) ==
  strip(replace(replace(lines[j], language.multistart), language.multiend))

\* C12 as stated: when a block-comment delimiter line adds non-blank comment
\* text while the current section holds code, the section is closed, with its
\* comment and its code, and the code accumulated for the new section is the
\* most recent line of the previous code block.
C12_LastLineCarriedForward ==
  \A j \in 2..Len(trace) :
    /\ trace[j].branch = "delimiter_comment"
    /\ trace[j - 1].has_code
    /\ AddedText(j) # <<>>
    => /\ trace[j].nsections = trace[j - 1].nsections + 1
       /\ trace[j].code_text \in
            {MostRecentLine(trace[j - 1].code_text),
             MostRecentLine(trace[j - 1].code_text) \o <<NL>>}

\* Line j went through process_as_code.
ProcessedAsCode(j) == trace[j].branch \in {"code", "delimiter_code"}

\* The line, left-trimmed, starts with '@'.
IsDecorator(line) == startswith(lstrip(line), <<"@">>)

\* C13 as stated: a line processed as code that begins, left-trimmed, with
\* 'class ', 'def ' or '@' while the section holds code closes the section
\* and is the first code line of the next one, unless it directly continues
\* decorator lines, in which case it is appended: a class or def line is
\* never appended to code whose most recent line is not a decorator.
C13_StructuralLineCloses ==
  \A j \in 2..Len(trace) :
    /\ ProcessedAsCode(j)
    /\ is_structural(lines[j])
    /\ trace[j - 1].code_text # <<>>
    => \/ /\ trace[j].nsections = trace[j - 1].nsections + 1
          /\ trace[j].code_text = lines[j] \o <<NL>>
       \/ /\ IsDecorator(MostRecentLine(trace[j - 1].code_text))
          /\ trace[j].nsections = trace[j - 1].nsections
          /\ trace[j].code_text = trace[j - 1].code_text \o lines[j] \o <<NL>>

\* C14: at every line boundary of parse the inside-block flag and the
\* multi-line-string flag are not both on, an indentation prefix has been
\* recorded whenever the inside-block flag is on, and has_code is truthy
\* exactly when the accumulated code text is not empty.
C14_LoopStateConsistent ==
  /\ ~(multi_line /\ multi_string)
  /\ multi_line => indent_level # <<>>
  /\ has_code <=> code_text # <<>>

\* C14: inside the loop, a block comment is open after a delimiter line that
\* added no text to a section that holds code: the flag is on, the prefix is
\* recorded and the code is kept with its marker.
C14_Witness ==
  /\ pc = "loop"
  /\ pos > 2
  /\ multi_line
  /\ ~multi_string
  /\ indent_level # <<>>
  /\ has_code
  /\ code_text # <<>>
  /\ trace[pos - 1].branch = "delimiter_comment"

=============================================================================
